---- MODULE Spec2Model ----
(***************************************************************************)
(* CPU-Monitor-Stress-Tool: the test session controller of MainWindow      *)
(* (src/main_window.py) and the duty-cycle worker (src/stress_test.py).    *)
(*                                                                         *)
(* Time is counted in quanta of 250 ms, the greatest common divisor of the *)
(* three timer intervals of the program (profile timer 250 ms, metrics     *)
(* timer 1000 ms, auto-stop timer total_duration * 1000 ms).  The Qt event *)
(* loop is single threaded: each slot runs to completion, so each slot is  *)
(* one action.  A timer that is due fires before time advances.            *)
(*                                                                         *)
(* Python floats are modelled as exact rationals [n, d] in lowest terms    *)
(* with d > 0; a float NaN is the record with d = 0.  An attribute that    *)
(* __init__ does not create is << >> until it is first assigned, <<v>>    *)
(* afterwards.                                                             *)
(***************************************************************************)
EXTENDS Integers, Sequences, FiniteSets, TLC

\* ---------------------------------------------------------------- bounds
NumCores == 2        \* psutil.cpu_count(logical=True) of the machine
MaxTime  == 4        \* quanta of 250 ms the clock may advance
Epoch    == 1        \* time.time() when the window is constructed, in quanta
MaxMarkers == 1      \* markers one session may collect
MaxStarts == 2       \* clicks on the enabled Start button
MaxSessionTime == 12 \* quanta the clock may advance in the timed models
MaxSessionMarkers == 2 \* markers one session may collect in the marker model

\* ------------------------------------------------------ program constants
QuantaPerSecond == 4           \* 1000 ms / 250 ms
ProfileInterval == 1           \* profile_timer.start(250), in quanta
MetricsInterval == 4           \* metrics_timer.start(1000), in quanta
JoinTimeout     == 4           \* p.join(timeout=1.0), in quanta
PercentScale    == 100         \* load / 100.0
NeverDue        == -1          \* a timer Qt did not register: it never fires
MaxTimerSeconds == 2147483     \* the seconds whose milliseconds fit a C int

\* -------------------------------------------------------------- rationals
Abs(x) == IF x < 0 THEN -x ELSE x
Min(a, b) == IF a <= b THEN a ELSE b
Max(a, b) == IF a >= b THEN a ELSE b

RECURSIVE Gcd(_, _)
Gcd(a, b) == IF b = 0 THEN a ELSE Gcd(b, a % b)

\* n / d for d # 0, in lowest terms with a positive denominator
Rat(n, d) ==
    LET s == IF d < 0 THEN -1 ELSE 1
        g == Gcd(Abs(n), Abs(d))
    IN  [n |-> (s * n) \div g, d |-> (s * d) \div g]

NaN == [n |-> 0, d |-> 0]
IsNaN(x) == x.d = 0
RatLt(a, b) == a.n * b.d < b.n * a.d
RatLe(a, b) == a.n * b.d <= b.n * a.d
RatAdd(a, b) == Rat(a.n * b.d + b.n * a.d, a.d * b.d)
RatSub(a, b) == Rat(a.n * b.d - b.n * a.d, a.d * b.d)
RatMul(a, b) == Rat(a.n * b.n, a.d * b.d)
Zero == Rat(0, 1)
One  == Rat(1, 1)

\* an attribute that may not exist yet
Unset == << >>
Some(v) == <<v>>

\* --------------------------------------------------------- QLineEdit texts
\* The text of an input field is what int() makes of it: an integer, or a
\* ValueError for a text that is no integer literal.
Txt(v) == [ok |-> TRUE, v |-> v]
BadTxt == [ok |-> FALSE, v |-> 0]

\* ------------------------------------------------------------------ state
VARIABLES
    starts,             \* clicks on the enabled Start button so far
    app,                \* "open" | "closed" (closeEvent accepted) | "aborted"
    last,               \* the slot or event handled last, with its outcome
    now,                \* quanta since the window was constructed
    start_button,       \* start_button.isEnabled()
    stop_button,        \* stop_button.isEnabled()
    is_test_running,
    current_profile,
    total_duration,
    pulsed_high, pulsed_low, pulsed_on_time, pulsed_off_time,
    ramp_start, ramp_end,
    shared_load_ratio,  \* multiprocessing.Value('d'): the LoadController
    test_start_time,
    workers,            \* self.workers: the Process objects of the session
    detached,           \* live worker processes self.workers no longer holds
    profile_timer,      \* [active, due]
    test_end_timer,     \* Unset (None) or Some([active, due])
    metrics_due,        \* next timeout of metrics_timer
    time_counter, time_data, load_data, temp_data, power_data,
    event_markers,      \* sequence of [timestamp, text]
    event_log,          \* lines of the QTextEdit
    energy_file_path,   \* TRUE: a package-0 energy_uj file was found
    max_energy_file_path,
    max_energy_range_uj, last_energy_uj, last_energy_time,
    opened,             \* what the last telemetry tick got from the energy files
    cycle               \* per core, the duty-cycle loop of the worker on it

profileVars == <<current_profile, total_duration, pulsed_high, pulsed_low,
                 pulsed_on_time, pulsed_off_time, ramp_start, ramp_end>>
telemetryVars == <<time_counter, time_data, load_data, temp_data, power_data>>
energyVars == <<energy_file_path, max_energy_file_path, max_energy_range_uj,
                last_energy_uj, last_energy_time, opened>>
timerVars == <<profile_timer, test_end_timer>>
buttonVars == <<start_button, stop_button>>
procVars == <<workers, detached>>
vars == <<starts, app, last, now, buttonVars, is_test_running, profileVars,
          shared_load_ratio, test_start_time, procVars, timerVars, metrics_due,
          telemetryVars, event_markers, event_log, energyVars, cycle>>

\* everything but the LoadController and the worker loops
controllerVars ==
    <<starts, app, last, now, buttonVars, is_test_running, profileVars,
      test_start_time, procVars, timerVars, metrics_due, telemetryVars,
      event_markers, event_log, energyVars>>

\* time.time(), in quanta
time_time == Epoch + now

\* what reading one of the energy files gives: int(f.read()), or an
\* exception; "caught" is PermissionError, FileNotFoundError or ValueError,
\* "other" any other exception (an OSError such as EIO or ENODATA)
FileRead(raises, v) == [raises |-> raises, v |-> v]

\* what a telemetry tick gets from the two energy files and from the wall
\* clock it reads after them; back: the quanta the wall clock has been set
\* back by then (a clock step, an NTP correction), 0 for a clock in step
EnergyRead(max, cur) == [max |-> max, cur |-> cur, back |-> 0]
SetBack(energy, back) == [energy EXCEPT !.back = back]

\* current_time = time.time() of the tick, in quanta
CurrentTime(energy) == time_time - energy.back
NoEnergyRead == EnergyRead(FileRead("none", 0), FileRead("none", 0))

\* a file the tick did not open
NotOpened == FileRead("unopened", 0)

Timer(active, due) == [active |-> active, due |-> due]
Stopped == Timer(FALSE, NeverDue)

\* QTimer.start(msec) at the current time: Qt registers no timer for a
\* negative interval (the QTimer then never times out); interval in quanta
TimerStarted(interval) ==
    IF interval < 0 THEN Timer(TRUE, NeverDue) ELSE Timer(TRUE, now + interval)

Due(t) == t.active /\ t.due # NeverDue /\ t.due <= now

\* MainWindow.__init__
InitWindow ==
    /\ starts = 0
    /\ app = "open"
    /\ last = "init"
    /\ now = 0
    /\ start_button = TRUE
    /\ stop_button = FALSE
    /\ is_test_running = FALSE
    /\ current_profile = Unset
    /\ total_duration = Unset
    /\ pulsed_high = Unset /\ pulsed_low = Unset
    /\ pulsed_on_time = Unset /\ pulsed_off_time = Unset
    /\ ramp_start = Unset /\ ramp_end = Unset
    /\ shared_load_ratio = Zero
    /\ test_start_time = 0
    /\ workers = << >>
    /\ detached = {}
    /\ profile_timer = Stopped
    /\ test_end_timer = Unset
    /\ metrics_due = MetricsInterval
    /\ time_counter = 0
    /\ time_data = << >> /\ load_data = << >>
    /\ temp_data = << >> /\ power_data = << >>
    /\ event_markers = << >>
    /\ event_log = << >>
    /\ max_energy_range_uj = 0
    /\ last_energy_uj = 0
    /\ last_energy_time = 0
    /\ opened = EnergyRead(NotOpened, NotOpened)

\* ------------------------------------------------------- _reset_graph_data
reset_graph_data ==
    /\ time_counter' = 0
    /\ time_data' = << >>
    /\ load_data' = << >>
    /\ temp_data' = << >>
    /\ power_data' = << >>
    /\ event_markers' = << >>

\* ------------------------------------------------------------ stress_test
\* _pin_to_core run by the child: the core it asks psutil to pin it to.
\* The request is best effort: psutil missing, or cpu_affinity raising, is
\* swallowed and leaves the process where the scheduler puts it.
pin_to_core(core_id) == Max(0, Min(core_id, NumCores - 1))

\* multiprocessing.Process(target=cpu_stress_worker,
\*                         args=(self.shared_load_ratio, core_id, True))
\* once started.  ratio names the Value object the child reads; pin is the
\* set of cores the child asks to be pinned to (none for core_id < 0).
Process(core_id) ==
    [core_id |-> core_id,
     ratio |-> "shared_load_ratio",
     pin |-> IF core_id >= 0 THEN {pin_to_core(core_id)} ELSE {},
     term |-> FALSE]

\* variant: one core short
CoreIdsShort == 0 .. NumCores - 2

\* range(num_cores)
CoreIds == 0 .. NumCores - 1

\* self.workers after the spawn loop started k processes
SpawnedWorkers(k) == [i \in 1 .. Min(k, Cardinality(CoreIds)) |-> Process(i - 1)]

\* ------------------------------------------------------ _start_stress_test
\* The form at the moment Start is clicked: the selected profile and the
\* texts in the order the handler converts them,
\*   Constant: <<duration, load>>
\*   Pulsed:   <<duration, high, low, on_time, off_time>>
\*   Ramp:     <<duration, start, end>>
Form(profile, texts) == [profile |-> profile, texts |-> texts]

\* index of the first text int() rejects, Len + 1 when all convert
FirstBad(texts) ==
    LET bad == {i \in 1 .. Len(texts) : ~texts[i].ok}
    IN  IF bad = {} THEN Len(texts) + 1
        ELSE CHOOSE i \in bad : \A j \in bad : i <= j

\* max(0, min(load, 100))
ClampPercent(load) == Max(0, Min(load, 100))

\* the ratio Start writes into shared_load_ratio
InitialRatio(form) ==
    CASE form.profile = "Constant" -> Rat(ClampPercent(form.texts[2].v), PercentScale)
      [] form.profile = "Pulsed"   -> Rat(form.texts[2].v, PercentScale)
      [] form.profile = "Ramp"     -> Rat(form.texts[2].v, PercentScale)

\* variant: the button is left enabled
StartButtonLeftEnabled == TRUE

\* start_button.setEnabled(False) at the end of a successful Start
StartButtonAfterStart == FALSE

\* test_end_timer.start(self.total_duration * 1000): the argument is a C
\* int.  For a product above 2^31 - 1 the binding either raises
\* OverflowError (overflow checking enabled) or passes the low 32 bits
\* on (overflow checking disabled); which one depends on the PyQt5 build.
EndTimerOutcomes(form, k) ==
    IF /\ FirstBad(form.texts) > Len(form.texts)
       /\ k = NumCores
       /\ form.texts[1].v > MaxTimerSeconds
    THEN {"OverflowError", "wrapped"}
    ELSE {"started"}

\* the low 32 bits of seconds * 1000 read as a signed int, in quanta and to
\* the second, for seconds * 1000 in 2^31 .. 2^32 - 1: the product less 2^32
WrappedInterval(seconds) ==
    (seconds - 2 * (MaxTimerSeconds + 1)) * QuantaPerSecond

\* The body of _start_stress_test.  form: the texts of the form; k: the
\* number of worker processes that start before Process.start() raises
\* (NumCores: none raises); timer: what test_end_timer.start() does.
start_stress_test(form, k, timer) ==
    LET texts  == form.texts
        bad    == FirstBad(texts)
        parsed == bad > Len(texts)
        isP    == form.profile = "Pulsed"
        isR    == form.profile = "Ramp"
        spawned == parsed /\ k = NumCores
        ok     == spawned /\ timer # "OverflowError"
    IN  /\ reset_graph_data
        /\ current_profile' = Some(form.profile)
        /\ total_duration' = IF bad > 1 THEN Some(texts[1].v) ELSE total_duration
        /\ pulsed_high' = IF isP /\ bad > 2
                          THEN Some(Rat(texts[2].v, PercentScale)) ELSE pulsed_high
        /\ pulsed_low' = IF isP /\ bad > 3
                         THEN Some(Rat(texts[3].v, PercentScale)) ELSE pulsed_low
        /\ pulsed_on_time' = IF isP /\ bad > 4 THEN Some(texts[4].v) ELSE pulsed_on_time
        /\ pulsed_off_time' = IF isP /\ bad > 5 THEN Some(texts[5].v) ELSE pulsed_off_time
        /\ ramp_start' = IF isR /\ bad > 2
                         THEN Some(Rat(texts[2].v, PercentScale)) ELSE ramp_start
        /\ ramp_end' = IF isR /\ bad > 3
                       THEN Some(Rat(texts[3].v, PercentScale)) ELSE ramp_end
        /\ shared_load_ratio' = IF parsed THEN InitialRatio(form) ELSE shared_load_ratio
        /\ test_start_time' = IF parsed THEN time_time ELSE test_start_time
        \* self.workers = [] drops the processes a failed Start left in it
        /\ workers' = IF parsed THEN SpawnedWorkers(k) ELSE workers
        /\ detached' = IF parsed
                       THEN detached \cup {workers[i] : i \in DOMAIN workers}
                       ELSE detached
        \* profile_timer.start(250) comes before test_end_timer.start()
        /\ profile_timer' = IF spawned /\ form.profile # "Constant"
                            THEN TimerStarted(ProfileInterval) ELSE profile_timer
        \* the QTimer of the Start before is stopped and dropped; the new one
        \* stays inactive when its start() raises
        /\ test_end_timer' =
               IF ok
               THEN Some(TimerStarted(IF timer = "wrapped"
                                      THEN WrappedInterval(texts[1].v)
                                      ELSE texts[1].v * QuantaPerSecond))
               ELSE IF spawned THEN Some(Stopped)
               ELSE test_end_timer
        /\ start_button' = IF ok THEN StartButtonAfterStart ELSE start_button
        /\ stop_button' = IF ok THEN TRUE ELSE stop_button
        /\ event_log' = IF ok THEN <<"Started">> ELSE << >>
        /\ is_test_running' = IF ok THEN TRUE ELSE is_test_running
        /\ last' = IF ok THEN "start_ok"
                   ELSE IF parsed THEN "start_error" ELSE "start_value_error"
        /\ UNCHANGED <<app, now, metrics_due, energyVars, cycle>>

\* ------------------------------------------------------- _stop_stress_test
\* if self.profile_timer.isActive(): self.profile_timer.stop()
StopProfileTimer(t) == IF t.active THEN Stopped ELSE t

\* variant: the auto-stop timer is left as it is
StopEndTimerSkipped(t) == t

\* variant: only a deadline that is already due is cancelled
StopEndTimerDueOnly(t) == IF t # Unset /\ Due(t[1]) THEN Some(Stopped) ELSE t

\* if self.test_end_timer and self.test_end_timer.isActive(): ...stop()
StopEndTimer(t) == IF t # Unset /\ t[1].active THEN Some(Stopped) ELSE t

\* p.terminate() for every p in self.workers
Terminated(ws) == [i \in DOMAIN ws |-> [ws[i] EXCEPT !.term = TRUE]]

\* self.workers = [] after the terminate and join loops
WorkersAfterStop == << >>

\* The body of _stop_stress_test.  end_timer: self.test_end_timer on entry;
\* stuck: the workers that do not exit within their join timeout.  Each of
\* them holds the event loop for JoinTimeout, and stays alive, terminate
\* request sent, with no reference left to it.
stop_stress_test(end_timer, stuck) ==
    /\ stuck \subseteq DOMAIN workers
    /\ now + JoinTimeout * Cardinality(stuck) <= Max(now, MaxTime)
    /\ now' = now + JoinTimeout * Cardinality(stuck)
    /\ profile_timer' = StopProfileTimer(profile_timer)
    /\ test_end_timer' = StopEndTimer(end_timer)
    /\ workers' = IF workers # << >> THEN WorkersAfterStop ELSE workers
    /\ detached' = detached \cup {Terminated(workers)[i] : i \in stuck}
    /\ event_log' = Append(event_log, "Stress test stopped.")
    /\ start_button' = TRUE
    /\ stop_button' = FALSE
    /\ is_test_running' = FALSE
    /\ UNCHANGED <<starts, profileVars, shared_load_ratio,
                   test_start_time, metrics_due, telemetryVars, event_markers,
                   energyVars, cycle>>

\* ------------------------------------------------------------- _add_marker
\* variant: no check of is_test_running
add_marker_unguarded(ok, text) ==
    IF ok /\ text # ""
    THEN /\ event_markers' =
               Append(event_markers, [timestamp |-> time_counter, text |-> text])
         /\ event_log' = Append(event_log, "Marker added")
         /\ last' = "marker_added"
    ELSE /\ last' = "marker_cancelled"
         /\ UNCHANGED <<event_markers, event_log>>

\* ok, text: what QInputDialog.getText returns
add_marker(ok, text) ==
    IF ~is_test_running
    THEN /\ last' = "marker_rejected"
         /\ UNCHANGED <<event_markers, event_log>>
    ELSE IF ok /\ text # ""
    THEN /\ event_markers' =
               Append(event_markers, [timestamp |-> time_counter, text |-> text])
         /\ event_log' = Append(event_log, "Marker added")
         /\ last' = "marker_added"
    ELSE /\ last' = "marker_cancelled"
         /\ UNCHANGED <<event_markers, event_log>>

\* ---------------------------------------------------- _update_load_profile
\* Python's a % b for b # 0: the result has the sign of b
PyMod(a, b) == IF b > 0 THEN a % b ELSE -((-a) % (-b))

\* time.time() - self.test_start_time, in quanta
ElapsedQuanta == time_time - test_start_time

\* whether the tick raises ZeroDivisionError
ProfileTickRaises ==
    \/ current_profile = Some("Pulsed") /\ pulsed_on_time[1] + pulsed_off_time[1] = 0
    \/ current_profile = Some("Ramp") /\ total_duration[1] = 0

\* variant: the phases swapped
PulsedTargetSwapped(e) ==
    LET cycle_time == (pulsed_on_time[1] + pulsed_off_time[1]) * QuantaPerSecond
        position_in_cycle == PyMod(e, cycle_time)
    IN  IF position_in_cycle < pulsed_off_time[1] * QuantaPerSecond
        THEN pulsed_low[1] ELSE pulsed_high[1]

\* Pulsed: the target at elapsed quanta e
PulsedTarget(e) ==
    LET cycle_time == (pulsed_on_time[1] + pulsed_off_time[1]) * QuantaPerSecond
        position_in_cycle == PyMod(e, cycle_time)
    IN  IF position_in_cycle < pulsed_on_time[1] * QuantaPerSecond
        THEN pulsed_high[1] ELSE pulsed_low[1]

\* Ramp: the target at elapsed quanta e
RampTarget(e) ==
    LET ratio == Rat(e, total_duration[1] * QuantaPerSecond)
        progress == IF RatLt(ratio, One) THEN ratio ELSE One
    IN  RatAdd(ramp_start[1], RatMul(RatSub(ramp_end[1], ramp_start[1]), progress))

\* the value _update_load_profile leaves in shared_load_ratio
ProfileTarget(e) ==
    CASE current_profile = Some("Pulsed") -> PulsedTarget(e)
      [] current_profile = Some("Ramp") -> RampTarget(e)
      [] OTHER -> shared_load_ratio

\* the next timeout of a repeating QTimer that fired for the timeout at due
NextTimeout(due, interval) ==
    IF due + interval > now THEN due + interval ELSE now + interval

\* --------------------------------------------------------- _update_metrics
\* what psutil.sensors_temperatures() gives: the readings that are not
\* None, or an exception ("AttributeError" and "KeyError" are caught)
TempRead(raises, readings) == [raises |-> raises, readings |-> readings]

MaxOf(S) == CHOOSE x \in S : \A y \in S : y <= x

\* temp_val
TempVal(temps) ==
    IF temps.raises = "none" /\ temps.readings # {}
    THEN Rat(MaxOf(temps.readings), 1) ELSE NaN

\* whether the slot reads max_energy_range_uj on this tick
ReadsMaxRange == energy_file_path /\ max_energy_range_uj = 0 /\ max_energy_file_path

\* the statement of the slot an exception no except clause names leaves
\* from: "temp", "max", "cur", or "none"
EscapesAt(temps, energy) ==
    IF temps.raises \notin {"none", "AttributeError", "KeyError"} THEN "temp"
    ELSE IF ReadsMaxRange /\ energy.max.raises = "other" THEN "max"
    ELSE IF /\ energy_file_path
            /\ ~(ReadsMaxRange /\ energy.max.raises = "caught")
            /\ energy.cur.raises = "other" THEN "cur"
    ELSE "none"

\* variant: only a failure on the range file is handled
EnergyReadFailsOnRange(energy) ==
    energy_file_path /\ ReadsMaxRange /\ energy.max.raises = "caught"

\* whether the except clause of the power block runs
EnergyReadFails(energy) ==
    /\ energy_file_path
    /\ \/ ReadsMaxRange /\ energy.max.raises = "caught"
       \/ energy.cur.raises = "caught"

\* the files the slot opens, with what each gave
OpenedFiles(temps, energy) ==
    LET reached == temps.raises \in {"none", "AttributeError", "KeyError"}
        files == EnergyRead(
            IF reached /\ ReadsMaxRange THEN energy.max ELSE NotOpened,
            IF reached /\ energy_file_path
                       /\ (ReadsMaxRange => energy.max.raises = "none")
            THEN energy.cur ELSE NotOpened)
    IN  \* the clock is read once the counter is
        IF files.cur.raises = "none" THEN SetBack(files, energy.back) ELSE files

\* variant: no rollover correction
DeltaEnergyUncorrected(current_energy_uj) == current_energy_uj - last_energy_uj

\* the energy delta, a rollover corrected by the cached range
DeltaEnergy(current_energy_uj) ==
    LET delta_energy == current_energy_uj - last_energy_uj
    IN  IF delta_energy < 0 THEN delta_energy + max_energy_range_uj' ELSE delta_energy

\* variant: the first sample is not told apart
PowerValNoFirstCheck(current_energy_uj, current_time) ==
    LET delta_time == current_time - last_energy_time
    IN  IF delta_time > 0
        THEN Rat(DeltaEnergy(current_energy_uj) * QuantaPerSecond, 1000000 * delta_time)
        ELSE NaN

\* variant: only a delta_time of 0 is skipped
PowerValNonZeroDelta(current_energy_uj, current_time) ==
    LET delta_time == current_time - last_energy_time
    IN  IF last_energy_time > 0 /\ delta_time # 0
        THEN Rat(DeltaEnergy(current_energy_uj) * QuantaPerSecond, 1000000 * delta_time)
        ELSE NaN

\* power_val of a tick that read current_energy_uj at current_time
PowerVal(current_energy_uj, current_time) ==
    LET delta_time == current_time - last_energy_time
    IN  IF last_energy_time > 0 /\ delta_time > 0
        THEN Rat(DeltaEnergy(current_energy_uj) * QuantaPerSecond, 1000000 * delta_time)
        ELSE NaN

update_metrics(cpu_load, temps, energy) ==
    LET esc == EscapesAt(temps, energy)
        fails == EnergyReadFails(energy)
        sampled == energy_file_path /\ ~fails /\ esc = "none"
    IN  /\ load_data' = Append(load_data, Rat(cpu_load, 1))
        /\ temp_data' = IF esc = "temp" THEN temp_data
                        ELSE Append(temp_data, TempVal(temps))
        /\ max_energy_range_uj' =
               IF ReadsMaxRange /\ esc # "temp" /\ energy.max.raises = "none"
               THEN energy.max.v ELSE max_energy_range_uj
        /\ energy_file_path' = IF fails /\ esc = "none" THEN FALSE ELSE energy_file_path
        /\ last_energy_uj' = IF sampled THEN energy.cur.v ELSE last_energy_uj
        /\ last_energy_time' = IF sampled THEN CurrentTime(energy) ELSE last_energy_time
        /\ power_data' =
               IF esc # "none" THEN power_data
               ELSE Append(power_data,
                           IF sampled THEN PowerVal(energy.cur.v, CurrentTime(energy))
                           ELSE NaN)
        /\ time_counter' = IF esc = "none" THEN time_counter + 1 ELSE time_counter
        /\ time_data' = IF esc = "none" THEN Append(time_data, time_counter + 1)
                        ELSE time_data
        /\ opened' = OpenedFiles(temps, energy)
        /\ last' = IF esc = "none" THEN "metrics" ELSE "metrics_raised"
        /\ UNCHANGED max_energy_file_path

\* ------------------------------------------------------- cpu_stress_worker
\* PERIOD = 0.05 s
PERIOD == Rat(1, 20)

\* variant: no upper clamp
ClampNoUpper(ratio) == IF RatLt(ratio, Zero) THEN Zero ELSE ratio

\* if ratio < 0.0: ratio = 0.0 / elif ratio > 1.0: ratio = 1.0
Clamp(ratio) ==
    IF RatLt(ratio, Zero) THEN Zero
    ELSE IF RatLt(One, ratio) THEN One
    ELSE ratio

\* work_time = PERIOD * ratio
WorkTime(ratio) == RatMul(PERIOD, ratio)

\* sleep_time = PERIOD - work_time
SleepTime(work_time) == RatSub(PERIOD, work_time)

\* a worker that has not read the shared value yet
NotStarted ==
    [pc |-> "start", read |-> Zero, ratio |-> Zero, work_time |-> Zero,
     sleep_time |-> Zero, elapsed |-> Zero, busy |-> FALSE, slept |-> FALSE]

\* the top of the while loop: one read of shared_load_ratio.value
WorkerRead(c) ==
    /\ cycle[c].pc \in {"start", "end"}
    /\ cycle' = [cycle EXCEPT ![c] =
           [pc |-> "busy",
            read |-> shared_load_ratio,
            ratio |-> Clamp(shared_load_ratio),
            work_time |-> WorkTime(Clamp(shared_load_ratio)),
            sleep_time |-> SleepTime(WorkTime(Clamp(shared_load_ratio))),
            elapsed |-> Zero, busy |-> FALSE, slept |-> FALSE]]
    /\ UNCHANGED <<controllerVars, shared_load_ratio>>

\* the busy loop: entered when work_time > 0, left once work_time has
\* passed, overrun later than that
WorkerBusy(c, overrun) ==
    LET k == cycle[c]
    IN  /\ k.pc = "busy"
        /\ cycle' = [cycle EXCEPT ![c] =
               IF RatLt(Zero, k.work_time)
               THEN [k EXCEPT !.pc = "sleep", !.busy = TRUE,
                              !.elapsed = RatAdd(k.work_time, overrun)]
               ELSE [k EXCEPT !.pc = "sleep"]]
        /\ UNCHANGED <<controllerVars, shared_load_ratio>>

\* variant: the shared value is read again before the sleep
WorkerSleepRereads(c) ==
    LET k == cycle[c]
        remain == RatSub(PERIOD, k.elapsed)
    IN  /\ k.pc = "sleep"
        /\ cycle' = [cycle EXCEPT ![c] =
               [k EXCEPT !.pc = "end",
                         !.read = shared_load_ratio,
                         !.ratio = Clamp(shared_load_ratio),
                         !.work_time = WorkTime(Clamp(shared_load_ratio)),
                         !.sleep_time = SleepTime(WorkTime(Clamp(shared_load_ratio))),
                         !.slept = RatLt(Zero, k.sleep_time) /\ RatLt(Zero, remain)]]
        /\ UNCHANGED <<controllerVars, shared_load_ratio>>

\* the sleep to the end of the period: remain = PERIOD - elapsed
WorkerSleep(c) ==
    LET k == cycle[c]
        remain == RatSub(PERIOD, k.elapsed)
    IN  /\ k.pc = "sleep"
        /\ cycle' = [cycle EXCEPT ![c] =
               [k EXCEPT !.pc = "end",
                         !.slept = RatLt(Zero, k.sleep_time) /\ RatLt(Zero, remain)]]
        /\ UNCHANGED <<controllerVars, shared_load_ratio>>

\* ------------------------------------------------------------ the inputs
\* The forms submitted: every profile with texts that convert, a text int()
\* rejects first and after other texts converted, loads outside 0..100,
\* durations <= 0 and a pulsed cycle of 0 s.
ConstantForms ==
    {Form("Constant", <<d, Txt(50)>>) : d \in {BadTxt, Txt(-1), Txt(0), Txt(1)}}
    \cup {Form("Constant", <<Txt(1), Txt(150)>>)}
PulsedForms ==
    {Form("Pulsed", <<Txt(1), Txt(150), Txt(-20), Txt(1), Txt(1)>>),
     Form("Pulsed", <<Txt(1), Txt(90), Txt(10), Txt(0), Txt(0)>>),
     Form("Pulsed", <<Txt(1), Txt(90), BadTxt, Txt(1), Txt(1)>>)}
RampForms ==
    {Form("Ramp", <<Txt(1), Txt(10), Txt(150)>>)}
StartForms == ConstantForms \cup PulsedForms \cup RampForms

\* how many worker processes start before Process.start() raises; the loop
\* is not reached when a text does not convert
SpawnOutcomes(form) ==
    IF FirstBad(form.texts) > Len(form.texts) THEN 0 .. NumCores ELSE {NumCores}

CpuLoads == {50}
TempReads == {TempRead("none", {}), TempRead("none", {40, 45})}
MarkerTexts == {"", "m"}

\* what an exception that leaves a slot does to the application: PyQt5
\* aborts the process (qFatal), older releases print it and go on
SlotErrorOutcomes == {"open", "aborted"}

\* ------------------------------------------------------------ the actions
\* the clock advances, up to limit, when no timer is due
Advance(limit) ==
    /\ app = "open"
    /\ now < limit
    /\ ~(metrics_due <= now)
    /\ ~Due(profile_timer)
    /\ ~(test_end_timer # Unset /\ Due(test_end_timer[1]))
    /\ now' = now + 1
    /\ last' = "tick"
    /\ UNCHANGED <<starts, app, buttonVars, is_test_running, profileVars,
                   shared_load_ratio, test_start_time, procVars, timerVars,
                   metrics_due, telemetryVars, event_markers, event_log, energyVars, cycle>>

Tick == Advance(MaxTime)

\* start_button.clicked, the button enabled
StartClicked(form, k, timer) ==
    /\ app = "open"
    /\ start_button
    /\ starts < MaxStarts
    /\ starts' = starts + 1
    /\ start_stress_test(form, k, timer)

\* a click on the disabled Start button: Qt emits no clicked signal
StartIgnored ==
    /\ app = "open"
    /\ ~start_button
    /\ last' = "start_ignored"
    /\ UNCHANGED <<starts, app, now, buttonVars, is_test_running, profileVars,
                   shared_load_ratio, test_start_time, procVars, timerVars,
                   metrics_due, telemetryVars, event_markers, event_log, energyVars, cycle>>

\* stop_button.clicked, the button enabled
StopClicked(stuck) ==
    /\ app = "open"
    /\ stop_button
    /\ stop_stress_test(test_end_timer, stuck)
    /\ last' = "stop"
    /\ UNCHANGED app

\* test_end_timer.timeout: the single-shot timer is inactive when its slot runs
AutoStop(stuck) ==
    /\ app = "open"
    /\ test_end_timer # Unset
    /\ Due(test_end_timer[1])
    /\ stop_stress_test(Some(Stopped), stuck)
    /\ last' = "auto_stop"
    /\ UNCHANGED app

\* closeEvent
CloseEvent(stuck) ==
    /\ app = "open"
    /\ stop_stress_test(test_end_timer, stuck)
    /\ app' = "closed"
    /\ last' = "close"

\* add_marker_button.clicked, while the list holds fewer than limit markers
MarkerClicked(limit, ok, text) ==
    /\ app = "open"
    /\ Len(event_markers) < limit
    /\ add_marker(ok, text)
    /\ UNCHANGED <<starts, app, now, buttonVars, is_test_running, profileVars,
                   shared_load_ratio, test_start_time, procVars, timerVars,
                   metrics_due, telemetryVars, energyVars, cycle>>

AddMarker(ok, text) == MarkerClicked(MaxMarkers, ok, text)

\* profile_timer.timeout
ProfileTick(outcome) ==
    /\ app = "open"
    /\ Due(profile_timer)
    /\ profile_timer' = Timer(TRUE, NextTimeout(profile_timer.due, ProfileInterval))
    /\ IF ProfileTickRaises
       THEN /\ app' = outcome
            /\ last' = "profile_raised"
            /\ UNCHANGED shared_load_ratio
       ELSE /\ shared_load_ratio' = ProfileTarget(ElapsedQuanta)
            /\ last' = "profile"
            /\ UNCHANGED app
    /\ UNCHANGED <<starts, now, buttonVars, is_test_running, profileVars,
                   test_start_time, procVars, test_end_timer, metrics_due,
                   telemetryVars, event_markers, event_log, energyVars, cycle>>

\* metrics_timer.timeout
MetricsTick(cpu_load, temps, energy, outcome) ==
    /\ app = "open"
    /\ metrics_due <= now
    /\ metrics_due' = NextTimeout(metrics_due, MetricsInterval)
    /\ update_metrics(cpu_load, temps, energy)
    /\ app' = IF EscapesAt(temps, energy) = "none" THEN app ELSE outcome
    /\ UNCHANGED <<starts, now, buttonVars, is_test_running, profileVars,
                   shared_load_ratio, test_start_time, procVars, timerVars,
                   event_markers, event_log, cycle>>

\* ----------------------------------------------------- the session model
\* a machine with no package energy counter under /sys/class/powercap
Init ==
    /\ InitWindow
    /\ energy_file_path = FALSE
    /\ max_energy_file_path = FALSE
    /\ cycle = [c \in CoreIds |-> NotStarted]

Next ==
    \/ Tick
    \/ \E form \in StartForms : \E k \in SpawnOutcomes(form) :
           \E timer \in EndTimerOutcomes(form, k) : StartClicked(form, k, timer)
    \/ StartIgnored
    \/ \E stuck \in SUBSET (1 .. NumCores) : StopClicked(stuck)
    \/ \E stuck \in SUBSET (1 .. NumCores) : AutoStop(stuck)
    \/ \E stuck \in SUBSET (1 .. NumCores) : CloseEvent(stuck)
    \/ \E ok \in BOOLEAN, text \in MarkerTexts : AddMarker(ok, text)
    \/ \E outcome \in SlotErrorOutcomes : ProfileTick(outcome)
    \/ \E cpu_load \in CpuLoads, temps \in TempReads :
           MetricsTick(cpu_load, temps, NoEnergyRead, "open")

Spec == Init /\ [][Next]_vars

\* ------------------------------------------------------ the worker model
\* The loops of the workers, one per core, against a LoadController the
\* controlling process may set to any double at any moment.
RatioValues == {Rat(-1, 2), Zero, Rat(21, 50), One, Rat(3, 2)}
Overruns == {Zero, Rat(1, 100), Rat(1, 10)}

\* self.shared_load_ratio.value = v
WriteRatio(v) ==
    /\ shared_load_ratio' = v
    /\ UNCHANGED <<controllerVars, cycle>>

WorkerNext ==
    \/ \E v \in RatioValues : WriteRatio(v)
    \/ \E c \in CoreIds : WorkerRead(c)
    \/ \E c \in CoreIds, overrun \in Overruns : WorkerBusy(c, overrun)
    \/ \E c \in CoreIds : WorkerSleep(c)

WorkerSpec == Init /\ [][WorkerNext]_vars

\* ------------------------------------------------------ the timed model
\* One session over a longer stretch of time: the window is opened, Start
\* is clicked once at any moment with a form that converts, every worker
\* starts, and the timers run until the auto-stop deadline ends the session.
SessionForms ==
    {Form("Constant", <<Txt(2), Txt(50)>>),
     Form("Pulsed", <<Txt(3), Txt(90), Txt(10), Txt(1), Txt(1)>>),
     Form("Pulsed", <<Txt(3), Txt(90), Txt(10), Txt(2), Txt(1)>>),
     Form("Ramp", <<Txt(2), Txt(10), Txt(100)>>),
     Form("Ramp", <<Txt(-1), Txt(10), Txt(150)>>)}

SessionClock == Advance(MaxSessionTime)

\* the first click on Start
SessionStart(form) ==
    /\ starts = 0
    /\ StartClicked(form, NumCores, "started")

SessionNext ==
    \/ SessionClock
    \/ \E form \in SessionForms : SessionStart(form)
    \/ AutoStop({})
    \/ \E outcome \in SlotErrorOutcomes : ProfileTick(outcome)
    \/ \E cpu_load \in CpuLoads, temps \in TempReads :
           MetricsTick(cpu_load, temps, NoEnergyRead, "open")

SessionSpec == Init /\ [][SessionNext]_vars

\* ----------------------------------------------------- the marker model
\* Sessions of 2 s, started and stopped by hand or by the deadline, with
\* markers added at any moment.
MarkerForms ==
    {Form("Constant", <<Txt(2), Txt(50)>>), Form("Constant", <<BadTxt, Txt(50)>>)}

SessionMarker(ok, text) == MarkerClicked(MaxSessionMarkers, ok, text)

MarkerNext ==
    \/ SessionClock
    \/ \E form \in MarkerForms : StartClicked(form, NumCores, "started")
    \/ StopClicked({})
    \/ AutoStop({})
    \/ \E ok \in BOOLEAN, text \in MarkerTexts : SessionMarker(ok, text)
    \/ MetricsTick(50, TempRead("none", {}), NoEnergyRead, "open")

MarkerSpec == Init /\ [][MarkerNext]_vars

\* ------------------------------------------------------ the power model
\* A machine whose package-0 energy counter was found: _find_energy_files
\* returns both paths or neither.  The counter file holds a value of
\* 0 .. max_energy_range_uj, or fails to be read.
PowerInit ==
    /\ InitWindow
    /\ energy_file_path = TRUE
    /\ max_energy_file_path = TRUE
    /\ cycle = [c \in CoreIds |-> NotStarted]

PowerForms == {Form("Constant", <<Txt(2), Txt(50)>>)}
MaxRangeReads ==
    {FileRead("none", 4), FileRead("caught", 0), FileRead("other", 0)}
CounterReads ==
    {FileRead("none", v) : v \in {0, 1, 3}}
    \cup {FileRead("caught", 0), FileRead("other", 0)}
EnergyReads == {EnergyRead(m, c) : m \in MaxRangeReads, c \in CounterReads}
SensorReads ==
    {TempRead("none", {45}), TempRead("KeyError", {}), TempRead("OSError", {})}

PowerNext ==
    \/ SessionClock
    \/ \E form \in PowerForms : SessionStart(form)
    \/ AutoStop({})
    \/ \E cpu_load \in CpuLoads, temps \in SensorReads, energy \in EnergyReads,
          outcome \in SlotErrorOutcomes :
           MetricsTick(cpu_load, temps, energy, outcome)

PowerSpec == PowerInit /\ [][PowerNext]_vars

\* ------------------------------------------------------ the clock model
\* The power sampler against a wall clock that is set back between two
\* samples, by a second or by two; time.time() stays positive.
ClockSteps == {0, QuantaPerSecond, 2 * QuantaPerSecond}
ClockReads ==
    {SetBack(EnergyRead(FileRead("none", 4), FileRead("none", v)), back) :
         v \in {0, 1, 3}, back \in ClockSteps}

\* metrics_timer.timeout with a clock reading after 1970
ClockTick(energy) ==
    /\ CurrentTime(energy) > 0
    /\ MetricsTick(50, TempRead("none", {45}), energy, "open")

ClockNext ==
    \/ SessionClock
    \/ \E energy \in ClockReads : ClockTick(energy)

ClockSpec == PowerInit /\ [][ClockNext]_vars

\* -------------------------------------------------- the controller model
\* Sessions of every profile, started and stopped by hand or by the
\* deadline, every worker starting: forms that convert, among them a pulsed
\* profile with no on-phase and a duration whose milliseconds exceed a C int.
ControllerForms ==
    {Form("Constant", <<Txt(2), Txt(50)>>),
     Form("Pulsed", <<Txt(2), Txt(90), Txt(10), Txt(1), Txt(1)>>),
     Form("Pulsed", <<Txt(2), Txt(90), Txt(10), Txt(0), Txt(1)>>),
     Form("Pulsed", <<Txt(MaxTimerSeconds + 1), Txt(90), Txt(10), Txt(1), Txt(1)>>),
     Form("Ramp", <<Txt(2), Txt(10), Txt(100)>>)}

ControllerNext ==
    \/ SessionClock
    \/ \E form \in ControllerForms : \E timer \in EndTimerOutcomes(form, NumCores) :
           StartClicked(form, NumCores, timer)
    \/ StopClicked({})
    \/ AutoStop({})
    \/ ProfileTick("open")
    \/ MetricsTick(50, TempRead("none", {}), NoEnergyRead, "open")

ControllerSpec == Init /\ [][ControllerNext]_vars

\* ================================================================ claims
StartLabels == {"start_ok", "start_error", "start_value_error", "start_ignored"}
StopLabels == {"stop", "auto_stop", "close"}
Idle == ~is_test_running

\* C1.  One session at a time: while the session is Running the Start
\* button is disabled, so a Start issued then is dropped, and the step
\* leaves the worker set, the profile parameters, the timers, the telemetry
\* records, the markers, the event log and the LoadController as they were.
C1_StartWhileRunningRejected ==
    [][/\ is_test_running => ~start_button
       /\ (is_test_running /\ last' \in StartLabels) =>
              /\ last' = "start_ignored"
              /\ UNCHANGED <<is_test_running, procVars, profileVars, timerVars,
                             telemetryVars, event_markers, event_log,
                             shared_load_ratio, test_start_time, buttonVars>>]_vars

\* a Running session with a record and a marker, Start just clicked
C1_Witness ==
    /\ is_test_running
    /\ last = "start_ignored"
    /\ time_data # << >>
    /\ event_markers # << >>

\* C2.  A Stop of a Running session (button, deadline or window close) ends
\* Idle with the profile timer inactive, no deadline pending, the worker
\* set empty, and every worker it leaves alive sent a terminate request.
C2_StopEndsIdle ==
    [][(is_test_running /\ last' \in StopLabels) =>
           /\ ~is_test_running'
           /\ ~profile_timer'.active
           /\ test_end_timer' # Unset /\ ~test_end_timer'[1].active
           /\ workers' = << >>
           /\ \A p \in detached' \ detached :
                  /\ p.term
                  /\ \E i \in DOMAIN workers : workers[i].core_id = p.core_id]_vars

\* a manual Stop one of whose workers outlived its join timeout
C2_Witness ==
    /\ last = "stop"
    /\ Idle
    /\ \E p \in detached : p.term

\* C3.  A Running session has a pending auto-stop deadline at its start
\* time plus total_duration seconds, the timeout that ends it.
C3_RunningHasDeadline ==
    is_test_running =>
        /\ test_end_timer # Unset
        /\ test_end_timer[1].active
        /\ test_end_timer[1].due # NeverDue
        /\ test_end_timer[1].due + Epoch =
               test_start_time + total_duration[1] * QuantaPerSecond

\* C4.  No session runs with a duration <= 0 or a pulsed cycle of 0 s, and
\* no profile tick divides by zero.
C4_RejectsDegenerate ==
    /\ is_test_running =>
           /\ total_duration[1] > 0
           /\ current_profile = Some("Pulsed") =>
                  pulsed_on_time[1] + pulsed_off_time[1] # 0
    /\ last # "profile_raised"

\* C5.  A Start that fails on a text that is no integer changes neither the
\* telemetry records, the markers, the elapsed-seconds counter, the stored
\* profile parameters and duration, the LoadController nor the worker set.
C5_FailedStartMutatesNothing ==
    [][last' = "start_value_error" =>
           UNCHANGED <<telemetryVars, event_markers, profileVars,
                       shared_load_ratio, workers, is_test_running>>]_vars

\* C6.  The LoadController holds a value in [0.0, 1.0] in every state.
C6_RatioInUnitRange ==
    RatLe(Zero, shared_load_ratio) /\ RatLe(shared_load_ratio, One)

\* C7.  After a Start that a failing spawn aborted, the session is Idle,
\* its worker set is empty, and no live worker without a terminate request
\* is left outside the worker set.
C7_SpawnFailureRolledBack ==
    /\ last = "start_error" => Idle /\ workers = << >>
    /\ \A p \in detached : p.term

\* C8.  A Stop while Idle changes no session state.
C8_StopWhileIdleNoOp ==
    [][(Idle /\ last' \in StopLabels) =>
           UNCHANGED <<is_test_running, workers, timerVars, shared_load_ratio,
                       telemetryVars, event_markers, event_log>>]_vars

\* C9.  A Running session has one worker per logical core: NumCores
\* workers, the i-th with core id i - 1 and asking to be pinned to that
\* core, all reading the one shared_load_ratio.
C9_OneWorkerPerCore ==
    is_test_running =>
        /\ Len(workers) = NumCores
        /\ {workers[i].core_id : i \in DOMAIN workers} = 0 .. NumCores - 1
        /\ \A i \in DOMAIN workers :
               /\ workers[i].core_id = i - 1
               /\ workers[i].pin = {i - 1}
               /\ workers[i].ratio = "shared_load_ratio"

\* a session a Start has just spawned
C9_Witness ==
    /\ last = "start_ok"
    /\ is_test_running
    /\ workers # << >>

\* C10.  In every cycle of every worker, with r the value read: the ratio
\* used is r clamped to [0, 1], work_time = PERIOD * ratio, work_time +
\* sleep_time = PERIOD; r <= 0 skips the busy loop and sleeps, r >= 1 runs
\* the busy loop and skips the sleep.
C10_DutyCycle ==
    \A c \in CoreIds :
        LET k == cycle[c]
        IN  k.pc # "start" =>
                /\ RatLe(Zero, k.ratio) /\ RatLe(k.ratio, One)
                /\ RatLt(k.read, Zero) => k.ratio = Zero
                /\ RatLt(One, k.read) => k.ratio = One
                /\ (RatLe(Zero, k.read) /\ RatLe(k.read, One)) => k.ratio = k.read
                /\ k.work_time = RatMul(Rat(1, 20), k.ratio)
                /\ RatAdd(k.work_time, k.sleep_time) = Rat(1, 20)
                /\ (k.pc \in {"sleep", "end"} /\ RatLe(k.read, Zero)) => ~k.busy
                /\ (k.pc \in {"sleep", "end"} /\ RatLe(One, k.read)) => k.busy
                /\ (k.pc = "end" /\ RatLe(One, k.read)) => ~k.slept
                /\ (k.pc = "end" /\ RatLe(k.read, Zero)) => k.slept

\* one worker finished a cycle that read 1.5, another one that read -0.5
C10_Witness ==
    \E c, e \in CoreIds :
        /\ cycle[c].pc = "end" /\ cycle[c].read = Rat(3, 2)
        /\ cycle[c].busy /\ ~cycle[c].slept
        /\ cycle[e].pc = "end" /\ cycle[e].read = Rat(-1, 2)
        /\ ~cycle[e].busy /\ cycle[e].slept

\* C11.  A tick of a Pulsed profile with a cycle of on + off > 0 seconds,
\* at e elapsed, writes high when e mod (on + off) < on and low otherwise.
C11_PulsedTarget ==
    [][(last' = "profile" /\ current_profile = Some("Pulsed")) =>
           LET e  == (Epoch + now) - test_start_time
               on == pulsed_on_time[1] * QuantaPerSecond
               c  == (pulsed_on_time[1] + pulsed_off_time[1]) * QuantaPerSecond
           IN  c > 0 =>
                   shared_load_ratio' =
                       IF e % c < on THEN pulsed_high[1] ELSE pulsed_low[1]]_vars

\* on = off = 1 s: a tick 2 s after Start, in the second cycle, wrote high
\* over the low of the first cycle's off phase
C11_Witness ==
    /\ last = "profile"
    /\ current_profile = Some("Pulsed")
    /\ pulsed_on_time = Some(1) /\ pulsed_off_time = Some(1)
    /\ (Epoch + now) - test_start_time = 2 * QuantaPerSecond
    /\ shared_load_ratio = Rat(90, 100)

\* what C12 says of one Ramp tick: the value written, t, is
\* start + (end - start) * min(e / total_duration, 1); it lies between
\* start and end, is no farther from end than the value it replaces, and
\* is end once e >= total_duration
RampTickAsClaimed ==
    LET e  == (Epoch + now) - test_start_time
        d  == total_duration[1] * QuantaPerSecond
        a  == ramp_start[1]
        b  == ramp_end[1]
        lo == IF RatLe(a, b) THEN a ELSE b
        hi == IF RatLe(a, b) THEN b ELSE a
        dist(x) == IF RatLe(x, b) THEN RatSub(b, x) ELSE RatSub(x, b)
        t  == shared_load_ratio'
    IN  /\ t = RatAdd(a, RatMul(RatSub(b, a),
                                IF RatLt(Rat(e, d), One) THEN Rat(e, d) ELSE One))
        /\ RatLe(lo, t) /\ RatLe(t, hi)
        /\ RatLe(dist(t), dist(shared_load_ratio))
        /\ e >= d => t = b

\* C12.  Every tick of a Ramp profile writes the interpolated target, which
\* stays between start and end, moves toward end and holds at end from
\* total_duration on.
C12_RampTarget ==
    [][(last' = "profile" /\ current_profile = Some("Ramp")
            /\ total_duration[1] # 0) => RampTickAsClaimed]_vars

\* the same for the sessions whose duration is positive
C12_RampTargetPositiveDuration ==
    [][(last' = "profile" /\ current_profile = Some("Ramp")
            /\ total_duration[1] > 0) => RampTickAsClaimed]_vars

\* a telemetry tick that read the counter: the step is _update_metrics and
\* the counter file gave a value
Sampled == last' = "metrics" /\ opened'.cur.raises = "none"

\* C13.  A sample taken with no previous timestamp stored appends NaN as
\* the power of its record, whatever the counter reads, and stores the
\* counter value read and the clock reading as the last values.
C13_FirstSampleUnavailable ==
    [][(Sampled /\ last_energy_time = 0) =>
           /\ power_data' = Append(power_data, NaN)
           /\ last_energy_uj' = opened'.cur.v
           /\ last_energy_time' = (Epoch + now) - opened'.back
           /\ last_energy_time' > 0]_vars

\* the first sample read a counter of 3: no power, 3 and the time stored
C13_Witness ==
    /\ last = "metrics"
    /\ opened.cur = FileRead("none", 3)
    /\ power_data = <<NaN>>
    /\ last_energy_uj = 3
    /\ last_energy_time = Epoch + now

\* C14.  A sample whose counter value Y is below the last value X, with
\* the range M read from max_energy_range_uj above X - Y, uses the delta
\* (Y - X) + M >= 0: its power, the clock reading being later than the
\* stored timestamp, is that delta over 10^6 and the seconds since the last
\* sample; and no power in any record is negative.
C14_RolloverDelta ==
    [][/\ (Sampled /\ last_energy_time > 0 /\ opened'.cur.v < last_energy_uj
             /\ max_energy_range_uj' > last_energy_uj - opened'.cur.v) =>
           LET delta == (opened'.cur.v - last_energy_uj) + max_energy_range_uj'
               dt    == ((Epoch + now) - opened'.back) - last_energy_time
           IN  /\ delta >= 0
               /\ dt > 0 =>
                      power_data' =
                          Append(power_data, Rat(delta * QuantaPerSecond, 1000000 * dt))
       /\ \A i \in DOMAIN power_data' :
              IsNaN(power_data'[i]) \/ RatLe(Zero, power_data'[i])]_vars

\* a sample that read 1 after 3 with a range of 4: delta 2 over one second
C14_Witness ==
    /\ last = "metrics"
    /\ opened.cur = FileRead("none", 1)
    /\ max_energy_range_uj = 4
    /\ Len(power_data) >= 2
    /\ power_data[Len(power_data)] = Rat(2, 1000000)
    /\ power_data[Len(power_data) - 1] = NaN

\* the last tick's read of an energy file failed with an error of kinds
NoFileOpened == EnergyRead(NotOpened, NotOpened)
ReadFailed(kinds) == opened.max.raises \in kinds \/ opened.cur.raises \in kinds

\* a disabled sampler stays disabled, and its ticks open no file and
\* record no power
DisabledForGood ==
    ~energy_file_path =>
        /\ ~energy_file_path'
        /\ last' \in {"metrics", "metrics_raised"} => opened' = NoFileOpened
        /\ last' = "metrics" => power_data' = Append(power_data, NaN)

\* C15.  After a read of an energy file failed because the file is missing
\* (FileNotFoundError), unreadable (PermissionError) or unparsable
\* (ValueError), power sampling is disabled; once disabled it stays so, no
\* tick opens the files again and every record has NaN as its power.
C15_ReadFailureDisables ==
    [][/\ ReadFailed({"caught"}) => ~energy_file_path
       /\ DisabledForGood]_vars

\* a tick after the one whose read of the counter failed, which itself came
\* after a sample: nothing opened, no power recorded
C15_Witness ==
    /\ last = "metrics"
    /\ ~energy_file_path
    /\ opened = NoFileOpened
    /\ last_energy_time > 0
    /\ Len(power_data) >= 2
    /\ power_data[Len(power_data)] = NaN
    /\ power_data[Len(power_data) - 1] = NaN

\* xs' is xs, or xs with one element appended
Extended(xs, ys) ==
    /\ Len(ys) \in {Len(xs), Len(xs) + 1}
    /\ SubSeq(ys, 1, Len(xs)) = xs

\* C16.  In the running application the four telemetry sequences have the
\* same length n and the recorded seconds are 1, 2, ..., n; a telemetry
\* tick appends one element to each; and a step that is no Start removes
\* or changes none.
C16_OneRecordPerTick ==
    [][/\ app' = "open" =>
              /\ Len(load_data') = Len(time_data')
              /\ Len(temp_data') = Len(time_data')
              /\ Len(power_data') = Len(time_data')
       /\ time_data' = [i \in 1 .. Len(time_data') |-> i]
       /\ (app' = "open" /\ last' \in {"metrics", "metrics_raised"}) =>
              /\ Len(time_data') = Len(time_data) + 1
              /\ Len(load_data') = Len(load_data) + 1
       /\ last' \notin {"start_ok", "start_error", "start_value_error"} =>
              /\ Extended(time_data, time_data')
              /\ Extended(load_data, load_data')
              /\ Extended(temp_data, temp_data')
              /\ Extended(power_data, power_data')]_vars

\* C17.  When the auto-stop deadline has just ended a session of
\* total_duration = D seconds, the session has D telemetry records, of the
\* seconds 1 .. D.
C17_AutoStopAfterDRecords ==
    last = "auto_stop" =>
        /\ total_duration[1] >= 0
        /\ time_data = [i \in 1 .. total_duration[1] |-> i]
        /\ Len(load_data) = total_duration[1]
        /\ Len(temp_data) = total_duration[1]
        /\ Len(power_data) = total_duration[1]

MarkerLabels == {"marker_rejected", "marker_added", "marker_cancelled"}

C19_SensorFailuresCaught ==
    [][last' \in {"metrics", "metrics_raised"} =>
           /\ last' = "metrics"
           /\ app' = "open"
           /\ is_test_running' = is_test_running
           /\ Len(time_data') = Len(time_data) + 1
           /\ Len(load_data') = Len(load_data) + 1
           /\ Len(temp_data') = Len(temp_data) + 1
           /\ Len(power_data') = Len(power_data) + 1]_vars

\* C20.  A step of a worker never changes the LoadController.  A worker
\* at the top of its loop reads the value the LoadController holds at that
\* moment and derives the cycle's work time from it; through the busy and
\* sleep phases of the cycle the value read and the times derived from it
\* stay what they were, whatever is written meanwhile; and a write changes
\* no worker's cycle.
C20_ReadOncePerCycle ==
    [][/\ \A c \in CoreIds :
              cycle'[c] # cycle[c] =>
                  /\ shared_load_ratio' = shared_load_ratio
                  /\ IF cycle[c].pc \in {"start", "end"}
                     THEN /\ cycle'[c].pc = "busy"
                          /\ cycle'[c].read = shared_load_ratio
                          /\ cycle'[c].work_time =
                                 RatMul(Rat(1, 20),
                                        IF RatLt(shared_load_ratio, Zero) THEN Zero
                                        ELSE IF RatLt(One, shared_load_ratio) THEN One
                                        ELSE shared_load_ratio)
                     ELSE /\ cycle'[c].read = cycle[c].read
                          /\ cycle'[c].ratio = cycle[c].ratio
                          /\ cycle'[c].work_time = cycle[c].work_time
                          /\ cycle'[c].sleep_time = cycle[c].sleep_time
       /\ shared_load_ratio' # shared_load_ratio => cycle' = cycle]_vars

\* two workers on different values: one has finished a cycle on the 0.42
\* it read, the other is past the busy phase of a cycle on the 1 that the
\* LoadController holds now
C20_Witness ==
    \E c, e \in CoreIds :
        /\ shared_load_ratio = One
        /\ cycle[c].pc = "end" /\ cycle[c].read = Rat(21, 50)
        /\ cycle[c].work_time = Rat(21, 1000)
        /\ cycle[e].pc = "sleep" /\ cycle[e].read = One /\ cycle[e].busy

\* C21.  The LoadController is written only by a Start that converted its
\* form and by profile ticks of a Running session whose profile is Pulsed or
\* Ramp: any other step leaves its value as it was, a Constant session
\* included, and no profile tick is delivered while no session is Running.
C21_ControllerWriters ==
    [][/\ shared_load_ratio' # shared_load_ratio =>
              \/ last' \in {"start_ok", "start_error"}
              \/ /\ last' = "profile"
                 /\ is_test_running
                 /\ current_profile \in {Some("Pulsed"), Some("Ramp")}
       /\ last' \in {"profile", "profile_raised"} => is_test_running]_vars

\* C22.  A sample that is not the first (a last timestamp is stored) and
\* whose clock reading is not later than the stored timestamp appends NaN
\* as the power of its record, and still stores the counter value read and
\* the clock reading as the last values.
C22_NoPowerWithoutElapsedTime ==
    [][(/\ Sampled
        /\ last_energy_time > 0
        /\ (Epoch + now) - opened'.back <= last_energy_time) =>
           /\ power_data' = Append(power_data, NaN)
           /\ last_energy_uj' = opened'.cur.v
           /\ last_energy_time' = (Epoch + now) - opened'.back]_vars

\* the second sample, two seconds after the window opened, read a clock
\* set back to the time the window opened, which is not later than the
\* timestamp the first sample stored
C22_Witness ==
    /\ last = "metrics"
    /\ now = 2 * MetricsInterval
    /\ Len(power_data) = 2
    /\ opened.cur.raises = "none"
    /\ opened.back = now
    /\ IsNaN(power_data[2])
    /\ last_energy_time = Epoch
    /\ last_energy_uj = opened.cur.v

\* the target of the profile at elapsed time 0 as C23 gives it; a Constant
\* profile has no tick, its target is the value Start wrote
TargetAtStartAsClaimed ==
    CASE current_profile = Some("Pulsed") ->
             IF 0 < pulsed_on_time[1] THEN pulsed_high[1] ELSE pulsed_low[1]
      [] current_profile = Some("Ramp") -> ramp_start[1]
      [] OTHER -> shared_load_ratio

\* C23.  Right after a successful Start the LoadController holds the target
\* of the profile at elapsed time 0, which is also what a profile tick at
\* that moment would compute: high for a pulsed profile with an on-phase,
\* low for one without, the start load for a ramp.
C23_InitialValueIsFirstTarget ==
    last = "start_ok" =>
        /\ shared_load_ratio = TargetAtStartAsClaimed
        /\ ~ProfileTickRaises => shared_load_ratio = ProfileTarget(0)

\* an auto-stop deadline is armed
DeadlinePending == test_end_timer # Unset /\ test_end_timer[1].active

\* C24.  The window holds one auto-stop timer, and it is armed only while a
\* session is Running: a successful Start arms it at that moment, no step
\* within the session re-arms it, every Stop leaves none armed, and the
\* deadline fires only in a Running session, not before that session's own
\* duration has passed since its Start.
C24_DeadlineOfCurrentSession ==
    [][/\ DeadlinePending => is_test_running
       /\ DeadlinePending' => is_test_running'
       /\ last' = "start_ok" =>
              /\ DeadlinePending'
              /\ test_end_timer'[1].due \in
                     {NeverDue, now' + total_duration'[1] * QuantaPerSecond}
       /\ (is_test_running /\ is_test_running') => test_end_timer' = test_end_timer
       /\ last' = "auto_stop" =>
              /\ is_test_running
              /\ now >= (test_start_time - Epoch) + total_duration[1] * QuantaPerSecond
              /\ ~DeadlinePending']_vars

\* the second click on Start began a Constant session before the deadline
\* of the Ramp session of the first click, which was therefore stopped by
\* hand; that session has now been ended by its own deadline, at or after
\* the moment the deadline of the first would have fired
C24_Witness ==
    /\ last = "auto_stop"
    /\ starts = 2
    /\ current_profile = Some("Constant")
    /\ ramp_start # Unset
    /\ test_start_time - Epoch < total_duration[1] * QuantaPerSecond
    /\ now = (test_start_time - Epoch) + total_duration[1] * QuantaPerSecond
====
